---- MODULE Spec2Model ----
(***************************************************************************)
(* Pomodoro++ : the timer/session state engine of src/app.rs, driven by    *)
(* the key handler and the one-second tick of src/main.rs, with the        *)
(* persistence calls of src/db.rs it makes.                                *)
(***************************************************************************)
EXTENDS Integers, Sequences, FiniteSets

VARIABLES
    timer_running,      \* App.timer_running
    mode,               \* App.mode: "Work" | "Break"
    remaining_seconds,  \* App.remaining_seconds (u64)
    work_duration,      \* App.work_duration (u64)
    break_duration,     \* App.break_duration (u64)
    session_start,      \* App.session_start: Option<DateTime>, None or Some(clock reading)
    tags,               \* App.tags: Vec<String>
    selected_tag_index, \* App.selected_tag_index
    stats_tag_index,    \* App.stats_tag_index: 0 for all tags, k for tags[k - 1]
    db_sessions,        \* rows of table sessions, in insertion order
    db_config,          \* rows of table config: key -> Option<String>
    save_attempts,      \* number of calls of Database::save_session
    dispatched,         \* notifications handed to detached threads, in dispatch order
    now,                \* reading of chrono::Local::now(), in clock units
    adjustments,        \* number of duration adjustments made so far
    panicked            \* the process died in a panic

vars == <<timer_running, mode, remaining_seconds, work_duration, break_duration,
          session_start, tags, selected_tag_index, stats_tag_index, db_sessions, db_config,
          save_attempts, dispatched, now, adjustments, panicked>>

(***************************************************************************)
(* Bounds of the model.                                                    *)
(***************************************************************************)
MaxTime == 1            \* the wall clock is read at 0..MaxTime (half seconds)
MaxCompletions == 2     \* completions explored in one run
MaxAdjust == 1          \* duration adjustments explored in one run
MaxWallClock == 120    \* the wall clock of the paced run (half seconds)
ClockStep == 120       \* how far the wall clock is set back (half seconds)
HistoryDays == 9       \* days of history on disk when the statistics are opened
MaxSaved == 2          \* sessions saved while the statistics are explored
MaxHalfDays == 2       \* half days passing while the statistics are explored
HistoryMonths == 14    \* months of history on disk when the monthly statistics are opened

(***************************************************************************)
(* Option<T>                                                               *)
(***************************************************************************)
None == {}
Some(x) == {x}
Unwrap(o) == CHOOSE x \in o : TRUE

(***************************************************************************)
(* i64 values.  A value is hi * 2^62 + lo with lo small, so that i64::MAX  *)
(* is <<2, -1>> and i64::MIN is <<-2, 0>>; 2^64 is four units of hi.       *)
(***************************************************************************)
I64(k, r) == [hi |-> k, lo |-> r]
Small(n) == I64(0, n)
I64Max == I64(2, -1)
I64Min == I64(-2, 0)
I64Add(a, b) == I64(a.hi + b.hi, a.lo + b.lo)
I64Lt(a, b) == a.hi < b.hi \/ (a.hi = b.hi /\ a.lo < b.lo)
I64Overflows(v) == I64Lt(I64Max, v) \/ I64Lt(v, I64Min)
I64Wrap(v) ==
    IF I64Lt(I64Max, v) THEN I64(v.hi - 4, v.lo)
    ELSE IF I64Lt(v, I64Min) THEN I64(v.hi + 4, v.lo)
    ELSE v
I64MaxOf(a, b) == IF I64Lt(a, b) THEN b ELSE a
I64MinOf(a, b) == IF I64Lt(b, a) THEN b ELSE a

(***************************************************************************)
(* Decimal strings: u64::to_string and str::parse::<u64>.                  *)
(***************************************************************************)
Digits == <<"0", "1", "2", "3", "4", "5", "6", "7", "8", "9">>

RECURSIVE to_string(_)
to_string(n) ==
    IF n < 10 THEN <<Digits[n + 1]>>
    ELSE Append(to_string(n \div 10), Digits[(n % 10) + 1])

DigitValue(c) == CHOOSE d \in 0..9 : Digits[d + 1] = c
IsDigit(c) == \E d \in 0..9 : Digits[d + 1] = c

RECURSIVE ParseDigits(_)
ParseDigits(s) ==
    IF Len(s) = 0 THEN 0
    ELSE 10 * ParseDigits(SubSeq(s, 1, Len(s) - 1)) + DigitValue(s[Len(s)])

\* u64::MAX = 18446744073709551615 in digits
U64MaxDigits == <<"1", "8", "4", "4", "6", "7", "4", "4", "0", "7", "3", "7", "0", "9",
                  "5", "5", "1", "6", "1", "5">>

RECURSIVE StripZeros(_)
StripZeros(s) ==
    IF Len(s) > 1 /\ s[1] = "0" THEN StripZeros(SubSeq(s, 2, Len(s))) ELSE s

\* a > b for two digit strings of one length
RECURSIVE DigitsGreater(_, _)
DigitsGreater(a, b) ==
    /\ Len(a) > 0
    /\ \/ DigitValue(a[1]) > DigitValue(b[1])
       \/ /\ a[1] = b[1]
          /\ DigitsGreater(SubSeq(a, 2, Len(a)), SubSeq(b, 2, Len(b)))

\* the digits spell a number above u64::MAX
OverflowsU64(s) ==
    \/ Len(StripZeros(s)) > Len(U64MaxDigits)
    \/ /\ Len(StripZeros(s)) = Len(U64MaxDigits)
       /\ DigitsGreater(StripZeros(s), U64MaxDigits)

\* str::parse::<u64>: Ok(n) or Err, as an Option.  One leading "+" is
\* accepted; an empty string, a lone sign, any other character and a number
\* above u64::MAX are errors.
ParseU64(s) ==
    LET body == IF Len(s) > 0 /\ s[1] = "+" THEN SubSeq(s, 2, Len(s)) ELSE s
    IN  IF /\ Len(body) > 0
           /\ \A i \in 1..Len(body) : IsDigit(body[i])
           /\ ~OverflowsU64(body)
        THEN Some(ParseDigits(body))
        ELSE None

\* Database::get_config(key, default)
get_config(cfg, key, default) ==
    IF cfg[key] = None THEN default ELSE Unwrap(cfg[key])

\* variant: a parse error gives 0 (unwrap_or_default)
ParseOr_zero_on_error(s, d) == IF ParseU64(s) = None THEN 0 ELSE Unwrap(ParseU64(s))

\* .parse().unwrap_or(d)
ParseOr(s, d) == IF ParseU64(s) = None THEN d ELSE Unwrap(ParseU64(s))

(***************************************************************************)
(* Program constants                                                       *)
(***************************************************************************)
MinDuration == 60
MaxWorkDuration == 7200
MaxBreakDuration == 3600
DefaultWork == 1500
DefaultBreak == 300
KeyStep == 60

\* chrono format "%Y-%m-%d %H:%M:%S": the reading, in half seconds, truncated
\* to whole seconds
FormatTime(t) == t \div 2

\* configuration rows the program itself can have left behind: none on a
\* fresh database, else a value written by set_config
StoredWork == {Some(to_string(60)), Some(to_string(120))}
StoredBreak == {Some(to_string(60))}
StoredWorkAny == {None, Some(to_string(60)), Some(to_string(7200))}
StoredBreakAny == {None, Some(to_string(60)), Some(to_string(3600))}

\* tag names typed into the tag input
TagInputs == {"", "Work"}

OtherMode(m) == IF m = "Work" THEN "Break" ELSE "Work"
DurationOf(m, w, b) == IF m = "Work" THEN w ELSE b

\* App::selected_tag
selected_tag ==
    IF selected_tag_index + 1 \in DOMAIN tags
    THEN Some(tags[selected_tag_index + 1]) ELSE None

(***************************************************************************)
(* App::new                                                                *)
(***************************************************************************)
new(stored_work, stored_break) ==
    /\ db_config \in [{"work_duration", "break_duration"} -> stored_work \cup stored_break]
    /\ db_config["work_duration"] \in stored_work
    /\ db_config["break_duration"] \in stored_break
    /\ work_duration = ParseOr(get_config(db_config, "work_duration", to_string(DefaultWork)), DefaultWork)
    /\ break_duration = ParseOr(get_config(db_config, "break_duration", to_string(DefaultBreak)), DefaultBreak)
    /\ timer_running = FALSE
    /\ mode = "Work"
    /\ remaining_seconds = work_duration
    /\ selected_tag_index = 0
    /\ stats_tag_index = 0
    /\ tags = <<"Study", "Work">>
    /\ session_start = None
    /\ db_sessions = << >>
    /\ save_attempts = 0
    /\ dispatched = << >>
    /\ now = 0
    /\ adjustments = 0
    /\ panicked = FALSE

(***************************************************************************)
(* App::toggle_timer                                                       *)
(***************************************************************************)
\* variant: every start stamps session_start
toggle_timer_restamp ==
    /\ ~panicked
    /\ IF timer_running
       THEN /\ timer_running' = FALSE
            /\ UNCHANGED session_start
       ELSE /\ timer_running' = TRUE
            /\ session_start' = Some(now)
    /\ UNCHANGED <<mode, remaining_seconds, work_duration, break_duration, tags,
                   selected_tag_index, stats_tag_index, db_sessions, db_config, save_attempts,
                   dispatched, now, adjustments, panicked>>

\* variant: every start reloads the countdown
toggle_timer_reload ==
    /\ ~panicked
    /\ IF timer_running
       THEN /\ timer_running' = FALSE
            /\ UNCHANGED <<session_start, remaining_seconds>>
       ELSE /\ timer_running' = TRUE
            /\ session_start' = IF session_start = None THEN Some(now) ELSE session_start
            /\ remaining_seconds' = DurationOf(mode, work_duration, break_duration)
    /\ UNCHANGED <<mode, work_duration, break_duration, tags,
                   selected_tag_index, stats_tag_index, db_sessions, db_config, save_attempts,
                   dispatched, now, adjustments, panicked>>

toggle_timer ==
    /\ ~panicked
    /\ IF timer_running
       THEN /\ timer_running' = FALSE
            /\ UNCHANGED session_start
       ELSE /\ timer_running' = TRUE
            /\ session_start' = IF session_start = None THEN Some(now) ELSE session_start
    /\ UNCHANGED <<mode, remaining_seconds, work_duration, break_duration, tags,
                   selected_tag_index, stats_tag_index, db_sessions, db_config, save_attempts,
                   dispatched, now, adjustments, panicked>>

(***************************************************************************)
(* App::reset_timer                                                        *)
(***************************************************************************)
\* variant: reset leaves the timer running
reset_timer_keeps_running ==
    /\ ~panicked
    /\ session_start' = None
    /\ remaining_seconds' = DurationOf(mode, work_duration, break_duration)
    /\ UNCHANGED <<timer_running, mode, work_duration, break_duration, tags,
                   selected_tag_index, stats_tag_index, db_sessions, db_config, save_attempts,
                   dispatched, now, adjustments, panicked>>

\* variant: reset goes back to a work session
reset_timer_back_to_work ==
    /\ ~panicked
    /\ timer_running' = FALSE
    /\ session_start' = None
    /\ mode' = "Work"
    /\ remaining_seconds' = work_duration
    /\ UNCHANGED <<work_duration, break_duration, tags, selected_tag_index, stats_tag_index,
                   db_sessions, db_config, save_attempts, dispatched, now,
                   adjustments, panicked>>

\* variant: reset records the abandoned session
reset_timer_records ==
    /\ ~panicked
    /\ timer_running' = FALSE
    /\ session_start' = None
    /\ remaining_seconds' = DurationOf(mode, work_duration, break_duration)
    /\ db_sessions' =
         IF session_start # None
         THEN Append(db_sessions,
                [start_time |-> Unwrap(session_start) \div 2, end_time |-> now \div 2,
                 duration |-> DurationOf(mode, work_duration, break_duration) - remaining_seconds,
                 tag |-> "Work", type |-> IF mode = "Work" THEN "work" ELSE "break"])
         ELSE db_sessions
    /\ UNCHANGED <<mode, work_duration, break_duration, tags, selected_tag_index, stats_tag_index,
                   db_config, save_attempts, dispatched, now,
                   adjustments, panicked>>

\* variant: reset always loads the work duration
reset_timer_work_only ==
    /\ ~panicked
    /\ timer_running' = FALSE
    /\ session_start' = None
    /\ remaining_seconds' = work_duration
    /\ UNCHANGED <<mode, work_duration, break_duration, tags, selected_tag_index, stats_tag_index,
                   db_sessions, db_config, save_attempts, dispatched, now,
                   adjustments, panicked>>

reset_timer ==
    /\ ~panicked
    /\ timer_running' = FALSE
    /\ session_start' = None
    /\ remaining_seconds' = DurationOf(mode, work_duration, break_duration)
    /\ UNCHANGED <<mode, work_duration, break_duration, tags, selected_tag_index, stats_tag_index,
                   db_sessions, db_config, save_attempts, dispatched, now,
                   adjustments, panicked>>

(***************************************************************************)
(* App::complete_session, with Database::save_session succeeding or not    *)
(***************************************************************************)
Notification(m) ==
    IF m = "Work" THEN "Work session complete! Time for a break."
    ELSE "Break is over! Back to work."

\* play_notification_sound and send_notification each spawn one detached
\* thread, which has not run yet when the call returns
Dispatch(m) == [message |-> Notification(m), sound |-> "spawned", notify |-> "spawned"]

SessionRow(start, end, duration, tag, session_type) ==
    [start_time |-> FormatTime(start), end_time |-> FormatTime(end),
     duration |-> duration, tag |-> tag, type |-> session_type]

\* variant: the countdown is reloaded before the mode is switched
complete_session_stale_reload(save_ok) ==
    /\ session_start' = None
    /\ IF session_start # None
       THEN /\ save_attempts' = save_attempts + 1
            /\ db_sessions' =
                 IF save_ok
                 THEN Append(db_sessions,
                        SessionRow(Unwrap(session_start), now,
                                   DurationOf(mode, work_duration, break_duration),
                                   IF selected_tag = None THEN "Work" ELSE Unwrap(selected_tag),
                                   IF mode = "Work" THEN "work" ELSE "break"))
                 ELSE db_sessions
       ELSE UNCHANGED <<save_attempts, db_sessions>>
    /\ dispatched' = Append(dispatched, Dispatch(mode))
    /\ mode' = OtherMode(mode)
    /\ remaining_seconds' = DurationOf(mode, work_duration, break_duration)
    /\ timer_running' = FALSE

\* variant: the row takes the duration of the mode being switched to
complete_session_records_next_duration(save_ok) ==
    /\ session_start' = None
    /\ IF session_start # None
       THEN /\ save_attempts' = save_attempts + 1
            /\ db_sessions' =
                 IF save_ok
                 THEN Append(db_sessions,
                        SessionRow(Unwrap(session_start), now,
                                   DurationOf(OtherMode(mode), work_duration, break_duration),
                                   IF selected_tag = None THEN "Work" ELSE Unwrap(selected_tag),
                                   IF mode = "Work" THEN "work" ELSE "break"))
                 ELSE db_sessions
       ELSE UNCHANGED <<save_attempts, db_sessions>>
    /\ dispatched' = Append(dispatched, Dispatch(mode))
    /\ mode' = OtherMode(mode)
    /\ remaining_seconds' = DurationOf(OtherMode(mode), work_duration, break_duration)
    /\ timer_running' = FALSE

\* variant: with no tag selected the row gets the empty tag
complete_session_empty_fallback(save_ok) ==
    /\ session_start' = None
    /\ IF session_start # None
       THEN /\ save_attempts' = save_attempts + 1
            /\ db_sessions' =
                 IF save_ok
                 THEN Append(db_sessions,
                        SessionRow(Unwrap(session_start), now,
                                   DurationOf(mode, work_duration, break_duration),
                                   IF selected_tag = None THEN "" ELSE Unwrap(selected_tag),
                                   IF mode = "Work" THEN "work" ELSE "break"))
                 ELSE db_sessions
       ELSE UNCHANGED <<save_attempts, db_sessions>>
    /\ dispatched' = Append(dispatched, Dispatch(mode))
    /\ mode' = OtherMode(mode)
    /\ remaining_seconds' = DurationOf(OtherMode(mode), work_duration, break_duration)
    /\ timer_running' = FALSE

\* variant: the message is chosen by the mode after the switch
complete_session_notifies_after_switch(save_ok) ==
    /\ session_start' = None
    /\ IF session_start # None
       THEN /\ save_attempts' = save_attempts + 1
            /\ db_sessions' =
                 IF save_ok
                 THEN Append(db_sessions,
                        SessionRow(Unwrap(session_start), now,
                                   DurationOf(mode, work_duration, break_duration),
                                   IF selected_tag = None THEN "Work" ELSE Unwrap(selected_tag),
                                   IF mode = "Work" THEN "work" ELSE "break"))
                 ELSE db_sessions
       ELSE UNCHANGED <<save_attempts, db_sessions>>
    /\ dispatched' = Append(dispatched, Dispatch(OtherMode(mode)))
    /\ mode' = OtherMode(mode)
    /\ remaining_seconds' = DurationOf(OtherMode(mode), work_duration, break_duration)
    /\ timer_running' = FALSE

\* variant: a failed save ends the completion at once
complete_session_aborts_on_save_error(save_ok) ==
    /\ session_start' = None
    /\ IF session_start # None /\ ~save_ok
       THEN /\ save_attempts' = save_attempts + 1
            /\ dispatched' = Append(dispatched, Dispatch(mode))
            /\ UNCHANGED <<db_sessions, mode, remaining_seconds, timer_running>>
       ELSE /\ IF session_start # None
               THEN /\ save_attempts' = save_attempts + 1
                    /\ db_sessions' =
                         Append(db_sessions,
                           SessionRow(Unwrap(session_start), now,
                                      DurationOf(mode, work_duration, break_duration),
                                      IF selected_tag = None THEN "Work" ELSE Unwrap(selected_tag),
                                      IF mode = "Work" THEN "work" ELSE "break"))
               ELSE UNCHANGED <<save_attempts, db_sessions>>
            /\ dispatched' = Append(dispatched, Dispatch(mode))
            /\ mode' = OtherMode(mode)
            /\ remaining_seconds' = DurationOf(OtherMode(mode), work_duration, break_duration)
            /\ timer_running' = FALSE

complete_session(save_ok) ==
    /\ session_start' = None
    /\ IF session_start # None
       THEN /\ save_attempts' = save_attempts + 1
            /\ db_sessions' =
                 IF save_ok
                 THEN Append(db_sessions,
                        SessionRow(Unwrap(session_start), now,
                                   DurationOf(mode, work_duration, break_duration),
                                   IF selected_tag = None THEN "Work" ELSE Unwrap(selected_tag),
                                   IF mode = "Work" THEN "work" ELSE "break"))
                 ELSE db_sessions
       ELSE UNCHANGED <<save_attempts, db_sessions>>
    /\ dispatched' = Append(dispatched, Dispatch(mode))
    /\ mode' = OtherMode(mode)
    /\ remaining_seconds' = DurationOf(OtherMode(mode), work_duration, break_duration)
    /\ timer_running' = FALSE

(***************************************************************************)
(* App::tick                                                               *)
(***************************************************************************)
\* variant: the tick does not look at timer_running
tick_ignores_running(save_ok) ==
    /\ ~panicked
    /\ IF remaining_seconds > 0
       THEN IF remaining_seconds - 1 = 0
            THEN /\ Len(dispatched) < MaxCompletions
                 /\ complete_session(save_ok)
            ELSE /\ remaining_seconds' = remaining_seconds - 1
                 /\ UNCHANGED <<timer_running, mode, session_start, db_sessions,
                                save_attempts, dispatched>>
       ELSE UNCHANGED <<timer_running, mode, remaining_seconds, session_start,
                        db_sessions, save_attempts, dispatched>>
    /\ UNCHANGED <<work_duration, break_duration, tags, selected_tag_index, stats_tag_index,
                   db_config, now, adjustments, panicked>>

\* variant: completion is tested before the decrement, not after it
tick_tests_before_decrement(save_ok) ==
    /\ ~panicked
    /\ IF timer_running
       THEN IF remaining_seconds = 0
            THEN /\ Len(dispatched) < MaxCompletions
                 /\ complete_session(save_ok)
            ELSE /\ remaining_seconds' = remaining_seconds - 1
                 /\ UNCHANGED <<timer_running, mode, session_start, db_sessions,
                                save_attempts, dispatched>>
       ELSE UNCHANGED <<timer_running, mode, remaining_seconds, session_start,
                        db_sessions, save_attempts, dispatched>>
    /\ UNCHANGED <<work_duration, break_duration, tags, selected_tag_index, stats_tag_index,
                   db_config, now, adjustments, panicked>>

\* what App::tick does to the application
tick_effect(save_ok) ==
    /\ ~panicked
    /\ IF timer_running /\ remaining_seconds > 0
       THEN IF remaining_seconds - 1 = 0
            THEN /\ Len(dispatched) < MaxCompletions
                 /\ complete_session(save_ok)
            ELSE /\ remaining_seconds' = remaining_seconds - 1
                 /\ UNCHANGED <<timer_running, mode, session_start, db_sessions,
                                save_attempts, dispatched>>
       ELSE UNCHANGED <<timer_running, mode, remaining_seconds, session_start,
                        db_sessions, save_attempts, dispatched>>
    /\ UNCHANGED <<work_duration, break_duration, tags, selected_tag_index, stats_tag_index,
                   db_config, adjustments, panicked>>

tick(save_ok) ==
    /\ tick_effect(save_ok)
    /\ UNCHANGED now

(***************************************************************************)
(* App::adjust_work_duration / App::adjust_break_duration.  The sum is an  *)
(* i64 addition: when it overflows, a build with overflow checks panics    *)
(* and one without wraps.  Database::set_config succeeds or not.           *)
(***************************************************************************)
\* variant: the upper clamp is missing
Clamped_without_min(v, lo, hi) == I64MaxOf(v, Small(lo)).lo

Clamped(v, lo, hi) == I64MinOf(I64MaxOf(v, Small(lo)), Small(hi)).lo

\* variant: the countdown of an open session is kept
adjust_work_duration_keeps_progress(delta, set_ok, wraps) ==
    /\ ~panicked
    /\ adjustments < MaxAdjust
    /\ adjustments' = adjustments + 1
    /\ LET sum == I64Add(Small(work_duration), delta)
           new_val == Clamped(I64Wrap(sum), MinDuration, MaxWorkDuration)
       IN  IF I64Overflows(sum) /\ ~wraps
           THEN /\ panicked' = TRUE
                /\ UNCHANGED <<work_duration, db_config, remaining_seconds>>
           ELSE /\ work_duration' = new_val
                /\ db_config' = IF set_ok
                                THEN [db_config EXCEPT !["work_duration"] = Some(to_string(new_val))]
                                ELSE db_config
                /\ remaining_seconds' = IF mode = "Work" /\ ~timer_running /\ session_start = None
                                        THEN new_val ELSE remaining_seconds
                /\ UNCHANGED panicked
    /\ UNCHANGED <<timer_running, mode, break_duration, session_start, tags,
                   selected_tag_index, stats_tag_index, db_sessions, save_attempts, dispatched, now>>

\* variant: a failed set_config ends the call before remaining_seconds is
\* reloaded
adjust_work_duration_returns_on_set_error(delta, set_ok, wraps) ==
    /\ ~panicked
    /\ adjustments < MaxAdjust
    /\ adjustments' = adjustments + 1
    /\ LET sum == I64Add(Small(work_duration), delta)
           new_val == Clamped(I64Wrap(sum), MinDuration, MaxWorkDuration)
       IN  IF I64Overflows(sum) /\ ~wraps
           THEN /\ panicked' = TRUE
                /\ UNCHANGED <<work_duration, db_config, remaining_seconds>>
           ELSE /\ work_duration' = new_val
                /\ db_config' = IF set_ok
                                THEN [db_config EXCEPT !["work_duration"] = Some(to_string(new_val))]
                                ELSE db_config
                /\ remaining_seconds' = IF mode = "Work" /\ ~timer_running /\ set_ok
                                        THEN new_val ELSE remaining_seconds
                /\ UNCHANGED panicked
    /\ UNCHANGED <<timer_running, mode, break_duration, session_start, tags,
                   selected_tag_index, stats_tag_index, db_sessions, save_attempts, dispatched, now>>

\* variant: the countdown is reloaded even while the timer is running
adjust_work_duration_reloads_running(delta, set_ok, wraps) ==
    /\ ~panicked
    /\ adjustments < MaxAdjust
    /\ adjustments' = adjustments + 1
    /\ LET sum == I64Add(Small(work_duration), delta)
           new_val == Clamped(I64Wrap(sum), MinDuration, MaxWorkDuration)
       IN  IF I64Overflows(sum) /\ ~wraps
           THEN /\ panicked' = TRUE
                /\ UNCHANGED <<work_duration, db_config, remaining_seconds>>
           ELSE /\ work_duration' = new_val
                /\ db_config' = IF set_ok
                                THEN [db_config EXCEPT !["work_duration"] = Some(to_string(new_val))]
                                ELSE db_config
                /\ remaining_seconds' = IF mode = "Work"
                                        THEN new_val ELSE remaining_seconds
                /\ UNCHANGED panicked
    /\ UNCHANGED <<timer_running, mode, break_duration, session_start, tags,
                   selected_tag_index, stats_tag_index, db_sessions, save_attempts, dispatched, now>>

adjust_work_duration(delta, set_ok, wraps) ==
    /\ ~panicked
    /\ adjustments < MaxAdjust
    /\ adjustments' = adjustments + 1
    /\ LET sum == I64Add(Small(work_duration), delta)
           new_val == Clamped(I64Wrap(sum), MinDuration, MaxWorkDuration)
       IN  IF I64Overflows(sum) /\ ~wraps
           THEN /\ panicked' = TRUE
                /\ UNCHANGED <<work_duration, db_config, remaining_seconds>>
           ELSE /\ work_duration' = new_val
                /\ db_config' = IF set_ok
                                THEN [db_config EXCEPT !["work_duration"] = Some(to_string(new_val))]
                                ELSE db_config
                /\ remaining_seconds' = IF mode = "Work" /\ ~timer_running
                                        THEN new_val ELSE remaining_seconds
                /\ UNCHANGED panicked
    /\ UNCHANGED <<timer_running, mode, break_duration, session_start, tags,
                   selected_tag_index, stats_tag_index, db_sessions, save_attempts, dispatched, now>>

adjust_break_duration(delta, set_ok, wraps) ==
    /\ ~panicked
    /\ adjustments < MaxAdjust
    /\ adjustments' = adjustments + 1
    /\ LET sum == I64Add(Small(break_duration), delta)
           new_val == Clamped(I64Wrap(sum), MinDuration, MaxBreakDuration)
       IN  IF I64Overflows(sum) /\ ~wraps
           THEN /\ panicked' = TRUE
                /\ UNCHANGED <<break_duration, db_config, remaining_seconds>>
           ELSE /\ break_duration' = new_val
                /\ db_config' = IF set_ok
                                THEN [db_config EXCEPT !["break_duration"] = Some(to_string(new_val))]
                                ELSE db_config
                /\ remaining_seconds' = IF mode = "Break" /\ ~timer_running
                                        THEN new_val ELSE remaining_seconds
                /\ UNCHANGED panicked
    /\ UNCHANGED <<timer_running, mode, work_duration, session_start, tags,
                   selected_tag_index, stats_tag_index, db_sessions, save_attempts, dispatched, now>>

(***************************************************************************)
(* The detached threads of play_notification_sound and send_notification:  *)
(* each spawns one external command and ignores whether that worked.       *)
(***************************************************************************)
play_notification_sound_thread(i, ok) ==
    /\ ~panicked
    /\ dispatched[i].sound = "spawned"
    /\ dispatched' = [dispatched EXCEPT ![i].sound = IF ok THEN "played" ELSE "failed"]
    /\ UNCHANGED <<timer_running, mode, remaining_seconds, work_duration,
                   break_duration, session_start, tags, selected_tag_index, stats_tag_index,
                   db_sessions, db_config, save_attempts, now, adjustments, panicked>>

send_notification_thread(i, ok) ==
    /\ ~panicked
    /\ dispatched[i].notify = "spawned"
    /\ dispatched' = [dispatched EXCEPT ![i].notify = IF ok THEN "shown" ELSE "failed"]
    /\ UNCHANGED <<timer_running, mode, remaining_seconds, work_duration,
                   break_duration, session_start, tags, selected_tag_index, stats_tag_index,
                   db_sessions, db_config, save_attempts, now, adjustments, panicked>>

(***************************************************************************)
(* Tag operations                                                          *)
(***************************************************************************)
timer_fields == <<timer_running, mode, remaining_seconds, work_duration,
                  break_duration, session_start, db_sessions, db_config,
                  save_attempts, dispatched, now, adjustments, panicked,
                  stats_tag_index>>

Contains(seq, x) == \E i \in DOMAIN seq : seq[i] = x
RemoveAt(seq, i) == [j \in 1..(Len(seq) - 1) |-> IF j < i THEN seq[j] ELSE seq[j + 1]]

next_tag ==
    /\ ~panicked
    /\ selected_tag_index' = IF Len(tags) # 0
                             THEN (selected_tag_index + 1) % Len(tags)
                             ELSE selected_tag_index
    /\ UNCHANGED <<tags, timer_fields>>

prev_tag ==
    /\ ~panicked
    /\ selected_tag_index' = IF Len(tags) # 0
                             THEN IF selected_tag_index = 0
                                  THEN Len(tags) - 1
                                  ELSE selected_tag_index - 1
                             ELSE selected_tag_index
    /\ UNCHANGED <<tags, timer_fields>>

add_tag(name) ==
    /\ ~panicked
    /\ tags' = IF name # "" /\ ~Contains(tags, name) THEN Append(tags, name) ELSE tags
    /\ UNCHANGED <<selected_tag_index, timer_fields>>

\* variant: the selection is left where it was after the removal
delete_selected_tag_keeps_index ==
    /\ ~panicked
    /\ IF Len(tags) # 0 /\ selected_tag_index < Len(tags)
       THEN /\ tags' = RemoveAt(tags, selected_tag_index + 1)
            /\ UNCHANGED selected_tag_index
       ELSE UNCHANGED <<tags, selected_tag_index>>
    /\ UNCHANGED timer_fields

\* variant: deleting a tag deletes the sessions recorded under it
delete_selected_tag_cascade ==
    /\ ~panicked
    /\ IF Len(tags) # 0 /\ selected_tag_index < Len(tags)
       THEN /\ tags' = RemoveAt(tags, selected_tag_index + 1)
            /\ selected_tag_index' =
                 IF selected_tag_index >= Len(tags') /\ Len(tags') # 0
                 THEN Len(tags') - 1
                 ELSE selected_tag_index
            /\ db_sessions' = SelectSeq(db_sessions,
                                        LAMBDA r : r.tag # tags[selected_tag_index + 1])
       ELSE UNCHANGED <<tags, selected_tag_index, db_sessions>>
    /\ UNCHANGED <<timer_running, mode, remaining_seconds, work_duration,
                   break_duration, session_start, db_config, save_attempts,
                   dispatched, now, adjustments, panicked,
                   stats_tag_index>>

delete_selected_tag ==
    /\ ~panicked
    /\ IF Len(tags) # 0 /\ selected_tag_index < Len(tags)
       THEN /\ tags' = RemoveAt(tags, selected_tag_index + 1)
            /\ selected_tag_index' =
                 IF selected_tag_index >= Len(tags') /\ Len(tags') # 0
                 THEN Len(tags') - 1
                 ELSE selected_tag_index
       ELSE UNCHANGED <<tags, selected_tag_index>>
    /\ UNCHANGED timer_fields

(***************************************************************************)
(* App::next_stats_tag / App::prev_stats_tag / App::get_stats_tag          *)
(***************************************************************************)
stats_frame == <<timer_running, mode, remaining_seconds, work_duration,
                 break_duration, session_start, tags, selected_tag_index,
                 db_sessions, db_config, save_attempts, dispatched, now,
                 adjustments, panicked>>

next_stats_tag ==
    /\ ~panicked
    /\ stats_tag_index' = (stats_tag_index + 1) % (Len(tags) + 1)
    /\ UNCHANGED stats_frame

prev_stats_tag ==
    /\ ~panicked
    /\ stats_tag_index' = IF stats_tag_index = 0 THEN Len(tags) ELSE stats_tag_index - 1
    /\ UNCHANGED stats_frame

get_stats_tag ==
    IF stats_tag_index = 0 THEN None
    ELSE IF stats_tag_index \in DOMAIN tags THEN Some(tags[stats_tag_index]) ELSE None

(***************************************************************************)
(* The wall clock moves on between two readings.                           *)
(***************************************************************************)
ClockAdvance ==
    /\ ~panicked
    /\ now < MaxTime
    /\ now' = now + 1
    /\ UNCHANGED <<timer_running, mode, remaining_seconds, work_duration,
                   break_duration, session_start, tags, selected_tag_index, stats_tag_index,
                   db_sessions, db_config, save_attempts, dispatched,
                   adjustments, panicked>>

(***************************************************************************)
(* run_app calls tick when a second has elapsed since the last call: the   *)
(* wall clock, read by the call, is a second further at the next one.      *)
(***************************************************************************)
tick_each_second(save_ok) ==
    /\ now < MaxWallClock
    /\ tick_effect(save_ok)
    /\ now' = now + 2

(***************************************************************************)
(* The wall clock is set back: a clock synchronisation, a change by hand,  *)
(* or the end of daylight saving time, the rows being written in local     *)
(* time without an offset.                                                 *)
(***************************************************************************)
ClockSetBack ==
    /\ ~panicked
    /\ now >= ClockStep
    /\ now' = now - ClockStep
    /\ UNCHANGED <<timer_running, mode, remaining_seconds, work_duration,
                   break_duration, session_start, tags, selected_tag_index, stats_tag_index,
                   db_sessions, db_config, save_attempts, dispatched,
                   adjustments, panicked>>

(***************************************************************************)
(* run_app on the Home screen: the timer keys as handle_key_event maps     *)
(* them, and the tick.                                                     *)
(***************************************************************************)
KeyDeltas == {Small(KeyStep), Small(-KeyStep)}

Init == new(StoredWork, StoredBreak)

Next ==
    \/ toggle_timer
    \/ reset_timer
    \/ \E save_ok \in BOOLEAN : tick(save_ok)
    \/ \E d \in KeyDeltas : adjust_work_duration(d, TRUE, TRUE)
    \/ \E d \in KeyDeltas : adjust_break_duration(d, TRUE, TRUE)
    \/ ClockAdvance

Spec == Init /\ [][Next]_vars

(***************************************************************************)
(* run_app with every key of handle_key_event that calls into App.         *)
(***************************************************************************)
NextKeys ==
    \/ toggle_timer
    \/ reset_timer
    \/ \E save_ok \in BOOLEAN : tick(save_ok)
    \/ \E d \in KeyDeltas : adjust_work_duration(d, TRUE, TRUE)
    \/ \E d \in KeyDeltas : adjust_break_duration(d, TRUE, TRUE)
    \/ next_tag
    \/ prev_tag
    \/ \E name \in TagInputs : add_tag(name)
    \/ delete_selected_tag

InitKeys == new({Some(to_string(60))}, {Some(to_string(60))})

SpecKeys == InitKeys /\ [][NextKeys]_vars

(***************************************************************************)
(* The duration setters as functions of any i64 delta, from any stored     *)
(* configuration, with set_config failing or not.                          *)
(***************************************************************************)
AnyDeltas == {Small(KeyStep), Small(-KeyStep), Small(8000), Small(-8000), I64Max, I64Min}

InitAdjust == new(StoredWorkAny, StoredBreakAny)

NextAdjust ==
    \/ toggle_timer
    \/ \E d \in AnyDeltas, set_ok \in BOOLEAN, wraps \in BOOLEAN : adjust_work_duration(d, set_ok, wraps)
    \/ \E d \in AnyDeltas, set_ok \in BOOLEAN, wraps \in BOOLEAN : adjust_break_duration(d, set_ok, wraps)

SpecAdjust == InitAdjust /\ [][NextAdjust]_vars

(***************************************************************************)
(* run_app with the threads its completions have spawned running at any    *)
(* later time, or never.                                                   *)
(***************************************************************************)
NextThreads ==
    \/ toggle_timer
    \/ \E save_ok \in BOOLEAN : tick(save_ok)
    \/ \E i \in DOMAIN dispatched, ok \in BOOLEAN : play_notification_sound_thread(i, ok)
    \/ \E i \in DOMAIN dispatched, ok \in BOOLEAN : send_notification_thread(i, ok)

SpecThreads == InitKeys /\ [][NextThreads]_vars

(***************************************************************************)
(* run_app left alone once the timer is started: the start key is pressed  *)
(* while the timer is idle and no other key is, and the loop calls         *)
(* App::tick once every second for as long as it runs, which is the        *)
(* fairness of the tick.                                                   *)
(***************************************************************************)
start_timer ==
    /\ ~timer_running
    /\ toggle_timer

NextTicks ==
    \/ start_timer
    \/ \E save_ok \in BOOLEAN : tick(save_ok)

SpecTicks == Init /\ [][NextTicks]_vars /\ WF_vars(\E save_ok \in BOOLEAN : tick(save_ok))

(***************************************************************************)
(* The application quit and started again on the database it left: App::new *)
(* reads the configuration and the tags back and builds a fresh engine.    *)
(* The table config may hold any text: strings that parse and strings that *)
(* do not.                                                                 *)
(***************************************************************************)
Malformed ==
    {<< >>, <<"a", "b", "c">>, <<"-", "6", "0">>, <<"6", "0", " ">>, <<"+">>,
     <<"1">> \o U64MaxDigits}

StoredStartup ==
    {None, Some(to_string(60)), Some(<<"+">> \o to_string(120))}
       \cup {Some(m) : m \in Malformed}

restart ==
    /\ ~panicked
    /\ work_duration' = ParseOr(get_config(db_config, "work_duration", to_string(DefaultWork)), DefaultWork)
    /\ break_duration' = ParseOr(get_config(db_config, "break_duration", to_string(DefaultBreak)), DefaultBreak)
    /\ timer_running' = FALSE
    /\ mode' = "Work"
    /\ remaining_seconds' = work_duration'
    /\ selected_tag_index' = 0
    /\ stats_tag_index' = 0
    /\ session_start' = None
    /\ UNCHANGED <<tags, db_sessions, db_config, save_attempts, dispatched, now,
                   adjustments, panicked>>

InitStartup ==
    /\ new(StoredStartup, StoredStartup)
    /\ \/ db_config["work_duration"] = Some(to_string(60))
       \/ db_config["break_duration"] = Some(to_string(60))
       \/ db_config["work_duration"] = None /\ db_config["break_duration"] = None

NextStartup ==
    \/ toggle_timer
    \/ tick(TRUE)
    \/ restart

SpecStartup == InitStartup /\ [][NextStartup]_vars

(***************************************************************************)
(* run_app with the start/pause key and the duration keys, the local wall  *)
(* clock moving on by itself between the calls that read it.               *)
(***************************************************************************)
ClockJump ==
    /\ ~panicked
    /\ now + ClockStep <= MaxWallClock
    /\ now' = now + ClockStep
    /\ UNCHANGED <<timer_running, mode, remaining_seconds, work_duration,
                   break_duration, session_start, tags, selected_tag_index, stats_tag_index,
                   db_sessions, db_config, save_attempts, dispatched,
                   adjustments, panicked>>

NextPaused ==
    \/ toggle_timer
    \/ tick(TRUE)
    \/ \E d \in KeyDeltas : adjust_work_duration(d, TRUE, TRUE)
    \/ \E d \in KeyDeltas : adjust_break_duration(d, TRUE, TRUE)
    \/ ClockJump

SpecPaused == Init /\ [][NextPaused]_vars

(***************************************************************************)
(* run_app with the keys that move the two tag selections and change the   *)
(* tag list: the tag keys of the home screen, the tag input, the delete    *)
(* confirmation and the arrow keys of the statistics screen.               *)
(***************************************************************************)
TagNames == {"", "Work", "Read", "Gym"}

NextTags ==
    \/ next_tag
    \/ prev_tag
    \/ \E name \in TagNames : add_tag(name)
    \/ delete_selected_tag
    \/ next_stats_tag
    \/ prev_stats_tag

SpecTags == InitKeys /\ [][NextTags]_vars

(***************************************************************************)
(* run_app over wall-clock time, up to the first recorded session: a tick  *)
(* each second, the start/pause key, and the wall clock being set back.    *)
(***************************************************************************)
NextClock ==
    \/ toggle_timer
    \/ db_sessions = <<>> /\ tick_each_second(TRUE)
    \/ ClockSetBack

SpecClock == InitKeys /\ [][NextClock]_vars

(***************************************************************************)
(* The statistics queries of Database, as functions of the rows of the     *)
(* sessions table and of the date SQLite's 'now' falls on.  A day is       *)
(* counted from the day the clock reads 0; DATE(start_time) and the        *)
(* 'YYYY-MM-DD' texts compare as their days do.                            *)
(***************************************************************************)
\* DATE(t) of a time in seconds
DateOf(t) == t \div 86400

\* DATE('now'): SQLite's 'now' is UTC, the rows hold local time
UtcOffsets == {-43200, 0, 43200}
LocalToday == DateOf(FormatTime(now))
UtcToday(offset) == DateOf(FormatTime(now) - offset)

\* STRFTIME('%Y-%m', t): year * 100 + month, the clock reading 0 on
\* 2024-01-01
IsLeap(y) == (y % 4 = 0 /\ y % 100 # 0) \/ y % 400 = 0
DaysInMonth(y, m) ==
    IF m = 2 THEN (IF IsLeap(y) THEN 29 ELSE 28)
    ELSE IF m \in {4, 6, 9, 11} THEN 30 ELSE 31

RECURSIVE YearMonthFrom(_, _, _)
YearMonthFrom(d, y, m) ==
    IF d < DaysInMonth(y, m)
    THEN y * 100 + m
    ELSE YearMonthFrom(d - DaysInMonth(y, m),
                       IF m = 12 THEN y + 1 ELSE y,
                       IF m = 12 THEN 1 ELSE m + 1)

\* the months of the days the histories reach, computed once
MonthTable == [d \in 0..(15 + 30 * (HistoryMonths + 1)) |-> YearMonthFrom(d, 2024, 1)]

MonthOf(t) == MonthTable[DateOf(t)]

\* SUM(duration) over the rows at the indices idx
RECURSIVE SumDuration(_, _)
SumDuration(rows, idx) ==
    IF idx = {} THEN 0
    ELSE LET i == CHOOSE j \in idx : TRUE
         IN  rows[i].duration + SumDuration(rows, idx \ {i})

\* ORDER BY
RECURSIVE Ascending(_)
Ascending(S) ==
    IF S = {} THEN << >>
    ELSE LET least == CHOOSE x \in S : \A y \in S : x <= y
         IN  <<least>> \o Ascending(S \ {least})

Descending(S) ==
    LET asc == Ascending(S)
    IN  [k \in 1..Len(asc) |-> asc[Len(asc) + 1 - k]]

\* GROUP BY day / GROUP BY month, over the rows the WHERE clause kept
GroupByDay(rows, idx) ==
    LET days == Ascending({DateOf(rows[i].start_time) : i \in idx})
    IN  [k \in 1..Len(days) |->
           [day |-> days[k],
            total |-> SumDuration(rows, {i \in idx : DateOf(rows[i].start_time) = days[k]})]]

GroupByMonth(rows, idx) ==
    LET months == Descending({MonthOf(rows[i].start_time) : i \in idx})
    IN  [k \in 1..Len(months) |->
           [month |-> months[k],
            total |-> SumDuration(rows, {i \in idx : MonthOf(rows[i].start_time) = months[k]})]]

\* variant: without a filter, only the rows of tags still in the tag list count
TagMatches_listed(r, tag) ==
    IF tag = None THEN Contains(tags, r.tag) ELSE r.tag = Unwrap(tag)

TagMatches(r, tag) == tag = None \/ r.tag = Unwrap(tag)

\* variant: the WHERE clause does not test the type
WeeklyWhere_any_type(r, tag, today) ==
    /\ TagMatches(r, tag)
    /\ DateOf(r.start_time) >= today - 7

\* WHERE [tag = ? AND] type = 'work' AND start_time >= DATE('now', '-7 days'):
\* a text comparison, in which a time of day on the date itself is not below
\* the bare date
WeeklyWhere(r, tag, today) ==
    /\ TagMatches(r, tag)
    /\ r.type = "work"
    /\ DateOf(r.start_time) >= today - 7

get_weekly_stats(rows, tag, today) ==
    GroupByDay(rows, {i \in DOMAIN rows : WeeklyWhere(rows[i], tag, today)})

\* variant: the result is not cut to 12 months
get_monthly_stats_unlimited(rows, tag) ==
    GroupByMonth(rows, {i \in DOMAIN rows :
                          TagMatches(rows[i], tag) /\ rows[i].type = "work"})

get_monthly_stats(rows, tag) ==
    LET all == GroupByMonth(rows, {i \in DOMAIN rows :
                                     TagMatches(rows[i], tag) /\ rows[i].type = "work"})
    IN  SubSeq(all, 1, IF Len(all) < 12 THEN Len(all) ELSE 12)

get_heatmap_data(rows, today) ==
    GroupByDay(rows, {i \in DOMAIN rows :
                        rows[i].type = "work" /\ DateOf(rows[i].start_time) >= today - 180})

\* App::get_stats_tag: no filter, or one of the tags
TagFilters == {None, Some("Study"), Some("Work")}

(***************************************************************************)
(* ui/heatmap.rs: the grid of render_heatmap_grid and the tier of          *)
(* get_intensity_char.  The tiers are named none, low, medium, high and    *)
(* max for the five (character, colour) pairs.  The day the clock reads 0  *)
(* on is a Monday.                                                         *)
(***************************************************************************)
\* NaiveDate::weekday, 0 for Monday
Weekday(d) == d % 7

\* data_map.get(&date).map(|v| *v / 60).unwrap_or(0)
MinutesOn(data, d) ==
    IF \E k \in DOMAIN data : data[k].day = d
    THEN data[CHOOSE k \in DOMAIN data : data[k].day = d].total \div 60
    ELSE 0

\* data_map.values().map(|v| *v / 60).max().unwrap_or(60).max(1)
max_minutes(data) ==
    LET most == IF data = << >> THEN 60
                ELSE CHOOSE m \in {data[k].total \div 60 : k \in DOMAIN data} :
                        \A k \in DOMAIN data : data[k].total \div 60 <= m
    IN  IF most < 1 THEN 1 ELSE most

\* variant: a ratio of exactly 0.5 is still medium
get_intensity_char_half_is_medium(minutes, max) ==
    IF minutes = 0 THEN "none"
    ELSE IF minutes * 100 < 25 * max THEN "low"
    ELSE IF minutes * 100 <= 50 * max THEN "medium"
    ELSE IF minutes * 100 < 75 * max THEN "high"
    ELSE "max"

\* ratio = minutes as f64 / max as f64, compared with 0.25, 0.5 and 0.75: the
\* quotient of two such integers is below one of them exactly when
\* minutes * 100 is below 25, 50 or 75 times max
get_intensity_char(minutes, max) ==
    IF minutes = 0 THEN "none"
    ELSE IF minutes * 100 < 25 * max THEN "low"
    ELSE IF minutes * 100 < 50 * max THEN "medium"
    ELSE IF minutes * 100 < 75 * max THEN "high"
    ELSE "max"

\* while current_date.weekday() != Weekday::Mon { current_date += 1 day }
RECURSIVE AlignToMonday(_)
AlignToMonday(d) == IF Weekday(d) = 0 THEN d ELSE AlignToMonday(d + 1)

\* the weeks of the grid: seven cells each, a cell being None after today and
\* else the date, its minutes and the tier it is drawn in
HeatmapWeeks(data, today) ==
    LET first == AlignToMonday(today - 180)
        count == (today - first + 7) \div 7
    IN  [w \in 1..count |->
          [i \in 1..7 |->
             LET date == first + 7 * (w - 1) + (i - 1)
             IN  IF date <= today
                 THEN Some([date |-> date,
                            minutes |-> MinutesOn(data, date),
                            tier |-> get_intensity_char(MinutesOn(data, date),
                                                        max_minutes(data))])
                 ELSE None]]

\* render_heatmap_grid with SQLite's 'now' at the given offset from local time
render_heatmap_grid(offset) ==
    HeatmapWeeks(get_heatmap_data(db_sessions, UtcToday(offset)), LocalToday)

(***************************************************************************)
(* The application opened on a database that holds a history, sessions     *)
(* being saved and time passing while the statistics are looked at.        *)
(***************************************************************************)
\* one work session a day, from day a to day b, started at 09:00
DailyHistory(a, b) ==
    [k \in 1..(b - a + 1) |->
       SessionRow(2 * (86400 * (a + k - 1) + 32400),
                  2 * (86400 * (a + k - 1) + 32400 + DefaultWork),
                  DefaultWork, "Work", "work")]

\* the sessions completed while the statistics are explored: duration, tag
\* and type
StatsSessions == {<<DefaultWork, "Work", "work">>, <<MinDuration, "Study", "work">>,
                  <<DefaultBreak, "Study", "break">>}

save_session(duration, tag, session_type) ==
    /\ ~panicked
    /\ save_attempts < MaxSaved
    /\ save_attempts' = save_attempts + 1
    /\ db_sessions' = Append(db_sessions,
                             SessionRow(now - 2 * duration, now, duration, tag, session_type))
    /\ UNCHANGED <<timer_running, mode, remaining_seconds, work_duration,
                   break_duration, session_start, tags, selected_tag_index, stats_tag_index,
                   db_config, dispatched, now, adjustments, panicked>>

HalfDayPasses ==
    /\ ~panicked
    /\ now < 2 * (86400 * (HistoryDays - 1) + 36000) + 86400 * MaxHalfDays
    /\ now' = now + 86400
    /\ UNCHANGED <<timer_running, mode, remaining_seconds, work_duration,
                   break_duration, session_start, tags, selected_tag_index, stats_tag_index,
                   db_sessions, db_config, save_attempts, dispatched,
                   adjustments, panicked>>

InitStats ==
    /\ db_config = [k \in {"work_duration", "break_duration"} |-> None]
    /\ work_duration = DefaultWork
    /\ break_duration = DefaultBreak
    /\ timer_running = FALSE
    /\ mode = "Work"
    /\ remaining_seconds = work_duration
    /\ selected_tag_index = 0
    /\ stats_tag_index = 0
    /\ tags = <<"Study", "Work">>
    /\ session_start = None
    /\ \E a \in 0..HistoryDays, b \in 0..(HistoryDays - 1) :
          /\ a <= b + 1
          /\ db_sessions = DailyHistory(a, b)
    /\ save_attempts = 0
    /\ dispatched = << >>
    /\ now = 2 * (86400 * (HistoryDays - 1) + 36000)
    /\ adjustments = 0
    /\ panicked = FALSE

NextStats ==
    \/ \E s \in StatsSessions : save_session(s[1], s[2], s[3])
    \/ HalfDayPasses

SpecStats == InitStats /\ [][NextStats]_vars

(***************************************************************************)
(* The application opened on a database that holds a history of months:    *)
(* one work session every 30 days, each in a month of its own, the last    *)
(* one today, and short sessions on the days before today.                 *)
(***************************************************************************)
MonthlyRow(j) ==
    SessionRow(2 * (86400 * (15 + 30 * j) + 32400),
               2 * (86400 * (15 + 30 * j) + 32400 + DefaultWork),
               DefaultWork, "Work", "work")

RecentRow(d) ==
    SessionRow(2 * (86400 * d + 32400), 2 * (86400 * d + 32400 + MinDuration),
               MinDuration, "Study", "work")

\* the months a .. HistoryMonths - 1, and the c days before today
MonthlyHistory(a, c) ==
    LET last == HistoryMonths - 1
        today == 15 + 30 * last
    IN  [k \in 1..(last - a) |-> MonthlyRow(a + k - 1)]
        \o [k \in 1..c |-> RecentRow(today - c + k - 1)]
        \o (IF a <= last THEN <<MonthlyRow(last)>> ELSE << >>)

MonthPasses ==
    /\ ~panicked
    /\ now < 2 * (86400 * (15 + 30 * HistoryMonths))
    /\ now' = now + 2 * 86400 * 30
    /\ UNCHANGED <<timer_running, mode, remaining_seconds, work_duration,
                   break_duration, session_start, tags, selected_tag_index, stats_tag_index,
                   db_sessions, db_config, save_attempts, dispatched,
                   adjustments, panicked>>

InitMonths ==
    /\ db_config = [k \in {"work_duration", "break_duration"} |-> None]
    /\ work_duration = DefaultWork
    /\ break_duration = DefaultBreak
    /\ timer_running = FALSE
    /\ mode = "Work"
    /\ remaining_seconds = work_duration
    /\ selected_tag_index = 0
    /\ stats_tag_index = 0
    /\ tags = <<"Study", "Work">>
    /\ session_start = None
    /\ \E a \in (0..3) \cup {HistoryMonths - 1, HistoryMonths}, c \in 0..2 :
          db_sessions = MonthlyHistory(a, c)
    /\ save_attempts = 0
    /\ dispatched = << >>
    /\ now = 2 * (86400 * (15 + 30 * (HistoryMonths - 1)) + 36000)
    /\ adjustments = 0
    /\ panicked = FALSE

NextMonths ==
    \/ \E s \in StatsSessions : save_session(s[1], s[2], s[3])
    \/ MonthPasses
    \/ delete_selected_tag

SpecMonths == InitMonths /\ [][NextMonths]_vars

(***************************************************************************)
(* Steps                                                                   *)
(***************************************************************************)
Duration == DurationOf(mode, work_duration, break_duration)
TickStep == \E save_ok \in BOOLEAN : tick(save_ok)
CompletingTick == timer_running /\ remaining_seconds = 1 /\ TickStep

(***************************************************************************)
(* C1: a tick received while running with remaining_seconds = 1 flips the  *)
(* mode, loads the new mode's configured duration into remaining_seconds,  *)
(* stops the timer and clears session_start.                               *)
(***************************************************************************)
C1_TickAtOneCompletes ==
    [][CompletingTick =>
         /\ mode' = OtherMode(mode)
         /\ remaining_seconds' = (IF mode' = "Work" THEN work_duration' ELSE break_duration')
         /\ timer_running' = FALSE
         /\ session_start' = None]_vars

\* both directions have completed: Work -> Break -> Work
C1_Witness ==
    /\ Len(dispatched) = 2
    /\ mode = "Work"
    /\ ~timer_running
    /\ session_start = None
    /\ remaining_seconds = work_duration
    /\ work_duration # break_duration

(***************************************************************************)
(* C2: in every step, the mode flips, one save is attempted and one        *)
(* notification round is dispatched exactly when the step is a tick taking *)
(* remaining_seconds from 1 to 0 while running; in every other step (a     *)
(* tick while not running included) none of the three happens.             *)
(***************************************************************************)
C2_CompletionOncePerCrossing ==
    [][/\ CompletingTick =>
            /\ mode' = OtherMode(mode)
            /\ save_attempts' = save_attempts + 1
            /\ Len(dispatched') = Len(dispatched) + 1
       /\ ~CompletingTick =>
            /\ mode' = mode
            /\ save_attempts' = save_attempts
            /\ dispatched' = dispatched]_vars

\* two crossings, two completions, and the timer counting down again
C2_Witness ==
    /\ save_attempts = 2
    /\ Len(dispatched) = 2
    /\ timer_running
    /\ remaining_seconds < Duration

(***************************************************************************)
(* C3: a tick received while the timer is not running changes nothing.     *)
(***************************************************************************)
C3_TickWhileStoppedIsNoOp ==
    [][(~timer_running /\ TickStep) =>
         UNCHANGED <<mode, remaining_seconds, timer_running, session_start,
                     work_duration, break_duration, db_sessions>>]_vars

\* paused in the middle of a session
C3_Witness ==
    /\ ~timer_running
    /\ session_start # None
    /\ remaining_seconds < Duration
    /\ remaining_seconds > 0

(***************************************************************************)
(* C4: the mode changes, a session row is appended and a save is attempted *)
(* only in a tick step: no step of toggle_timer, reset_timer, the duration *)
(* setters or the tag operations does any of these, and reset_timer leaves *)
(* the session log as it was however far the countdown had run.            *)
(***************************************************************************)
C4_OnlyTickCompletes ==
    [][/\ (mode' # mode \/ db_sessions' # db_sessions \/ save_attempts' # save_attempts)
            => TickStep
       /\ reset_timer => db_sessions' = db_sessions]_vars

\* a break session in progress, part of it counted down, after one recorded
\* session, one adjustment and one tag deletion
C4_Witness ==
    /\ mode = "Break"
    /\ Len(db_sessions) = 1
    /\ session_start # None
    /\ remaining_seconds < break_duration
    /\ adjustments = 1
    /\ Len(tags) = 1

(***************************************************************************)
(* C5: reset_timer yields timer_running = false, no session_start and      *)
(* remaining_seconds equal to the configured duration of the current mode, *)
(* and leaves mode, work_duration and break_duration unchanged.            *)
(***************************************************************************)
C5_ResetPostState ==
    [][reset_timer =>
         /\ timer_running' = FALSE
         /\ session_start' = None
         /\ remaining_seconds' = (IF mode = "Work" THEN work_duration ELSE break_duration)
         /\ mode' = mode
         /\ work_duration' = work_duration
         /\ break_duration' = break_duration]_vars

\* back at the full break duration with no session, the clock having moved
\* and work and break durations differing
C5_Witness ==
    /\ mode = "Break"
    /\ ~timer_running
    /\ session_start = None
    /\ remaining_seconds = break_duration
    /\ work_duration # break_duration
    /\ now > 0

(***************************************************************************)
(* C6: an open session keeps its session_start in every step, except that  *)
(* reset_timer and the completing tick clear it.                           *)
(***************************************************************************)
C6_SessionStartKept ==
    [][session_start # None =>
         \/ session_start' = session_start
         \/ /\ session_start' = None
            /\ (reset_timer \/ CompletingTick)]_vars

\* running again after a pause, the clock past the first start
C6_Witness ==
    /\ session_start = Some(0)
    /\ now > 0
    /\ timer_running
    /\ remaining_seconds < Duration

(***************************************************************************)
(* C7: toggle_timer leaves remaining_seconds, mode, work_duration and      *)
(* break_duration unchanged; it flips timer_running and stamps             *)
(* session_start with the clock reading only when starting with no open    *)
(* session.                                                                *)
(***************************************************************************)
C7_ToggleFrame ==
    [][toggle_timer =>
         /\ remaining_seconds' = remaining_seconds
         /\ mode' = mode
         /\ work_duration' = work_duration
         /\ break_duration' = break_duration
         /\ timer_running' = ~timer_running
         /\ session_start' = (IF ~timer_running /\ session_start = None
                              THEN Some(now) ELSE session_start)]_vars

\* a session started late: stamped with the later clock reading
C7_Witness ==
    /\ timer_running
    /\ session_start = Some(MaxTime)
    /\ mode = "Break"
    /\ remaining_seconds < Duration

(***************************************************************************)
(* C8 as claimed: remaining_seconds is at most the configured duration of  *)
(* the current mode in every reachable state.                              *)
(***************************************************************************)
C8_RemainingBounded == remaining_seconds <= Duration

(***************************************************************************)
(* C8 as amended: remaining_seconds is at most the configured duration of  *)
(* the current mode at startup, and every step keeps it so except an       *)
(* adjustment made while the timer is running, which leaves the countdown  *)
(* untouched and so can lower the duration below it.                       *)
(***************************************************************************)
AdjustStep == adjustments' # adjustments

C8_BoundBrokenOnlyByRunningAdjust ==
    /\ remaining_seconds <= Duration
    /\ [][(remaining_seconds <= Duration /\ ~(timer_running /\ AdjustStep))
            => remaining_seconds' <= (IF mode' = "Work" THEN work_duration' ELSE break_duration')]_vars

\* a paused session whose countdown an adjustment has reloaded
C8_Witness ==
    /\ adjustments = 1
    /\ ~timer_running
    /\ session_start # None
    /\ remaining_seconds = Duration
    /\ work_duration = 180

C10_AdjustClamps ==
    [][\A d \in AnyDeltas :
         /\ (\E set_ok \in BOOLEAN, wraps \in BOOLEAN : adjust_work_duration(d, set_ok, wraps))
              => work_duration' = Clamped(I64Add(Small(work_duration), d),
                                          MinDuration, MaxWorkDuration)
         /\ (\E set_ok \in BOOLEAN, wraps \in BOOLEAN : adjust_break_duration(d, set_ok, wraps))
              => break_duration' = Clamped(I64Add(Small(break_duration), d),
                                           MinDuration, MaxBreakDuration)]_vars

AdjustWorkStep == \E d \in KeyDeltas : adjust_work_duration(d, TRUE, TRUE)
AdjustBreakStep == \E d \in KeyDeltas : adjust_break_duration(d, TRUE, TRUE)

C12_AdjustReloadsIdleCurrentMode ==
    [][/\ AdjustWorkStep =>
            remaining_seconds' = (IF ~timer_running /\ mode = "Work"
                                  THEN work_duration' ELSE remaining_seconds)
       /\ AdjustBreakStep =>
            remaining_seconds' = (IF ~timer_running /\ mode = "Break"
                                  THEN break_duration' ELSE remaining_seconds)
       /\ reset_timer => remaining_seconds' = Duration
       /\ CompletingTick =>
            remaining_seconds' = DurationOf(mode', work_duration, break_duration)]_vars

\* the work duration lowered while the work countdown runs: the countdown
\* still holds more than the new duration
C12_Witness ==
    /\ adjustments = 1
    /\ timer_running
    /\ mode = "Work"
    /\ work_duration = MinDuration
    /\ remaining_seconds > work_duration

(***************************************************************************)
(* C13: the row a completion appends carries the configured duration of    *)
(* the completing mode, and the type "work" when that mode is Work and     *)
(* "break" when it is Break.                                               *)
(***************************************************************************)
AppendsRow == Len(db_sessions') = Len(db_sessions) + 1
LastRow == db_sessions'[Len(db_sessions')]

C13_RowDurationAndType ==
    [][AppendsRow =>
         /\ LastRow.duration = Duration
         /\ LastRow.type = (IF mode = "Work" THEN "work" ELSE "break")]_vars

\* a work row and a break row, each with the duration of its own mode, the
\* two durations differing
C13_Witness ==
    /\ Len(db_sessions) = 2
    /\ db_sessions[1].type = "work"
    /\ db_sessions[1].duration = work_duration
    /\ db_sessions[2].type = "break"
    /\ db_sessions[2].duration = break_duration
    /\ work_duration # break_duration

(***************************************************************************)
(* C14: the row a completion appends carries the tag selected at the       *)
(* completing tick, or "Work" when the tag list is empty; its tag is never *)
(* the empty string.                                                       *)
(***************************************************************************)
C14_RowTag ==
    [][AppendsRow =>
         /\ \/ Len(tags) = 0 /\ LastRow.tag = "Work"
            \/ /\ selected_tag_index + 1 \in DOMAIN tags
               /\ LastRow.tag = tags[selected_tag_index + 1]
         /\ LastRow.tag # ""]_vars

\* a row under "Study", then a row under the fallback, every tag deleted
C14_Witness ==
    /\ Len(db_sessions) = 2
    /\ db_sessions[1].tag = "Study"
    /\ db_sessions[2].tag = "Work"
    /\ tags = <<>>

(***************************************************************************)
(* C15: every step leaves the existing rows of the session log unchanged   *)
(* and in place and appends at most one row; only a completing tick        *)
(* appends, and it appends exactly one row when the save succeeds;         *)
(* deleting a tag leaves the log as it was.                                *)
(***************************************************************************)
C15_LogAppendOnly ==
    [][/\ Len(db_sessions') >= Len(db_sessions)
       /\ Len(db_sessions') <= Len(db_sessions) + 1
       /\ \A i \in DOMAIN db_sessions : db_sessions'[i] = db_sessions[i]
       /\ AppendsRow => CompletingTick
       /\ (timer_running /\ remaining_seconds = 1 /\ tick(TRUE)) => AppendsRow
       /\ delete_selected_tag => db_sessions' = db_sessions]_vars

\* a row recorded under "Study" is still there after the tag "Study" has
\* been deleted
C15_Witness ==
    /\ Len(db_sessions) = 1
    /\ db_sessions[1].tag = "Study"
    /\ ~Contains(tags, "Study")
    /\ Len(tags) = 1

(***************************************************************************)
(* C17: a completion whose save fails flips the mode, loads the new mode's *)
(* duration, stops the timer and clears session_start as a completion      *)
(* whose save succeeds does; it appends no row and the application goes    *)
(* on.                                                                     *)
(***************************************************************************)
C17_SaveFailureOnlyLosesRow ==
    [][(timer_running /\ remaining_seconds = 1 /\ tick(FALSE)) =>
         /\ db_sessions' = db_sessions
         /\ mode' = OtherMode(mode)
         /\ remaining_seconds' = DurationOf(OtherMode(mode), work_duration, break_duration)
         /\ timer_running' = FALSE
         /\ session_start' = None
         /\ save_attempts' = save_attempts + 1
         /\ Len(dispatched') = Len(dispatched) + 1
         /\ panicked' = FALSE
         /\ UNCHANGED <<work_duration, break_duration, tags, selected_tag_index, db_config>>]_vars

\* two completions, the first save failed and the second succeeded
C17_Witness ==
    /\ save_attempts = 2
    /\ Len(db_sessions) = 1
    /\ db_sessions[1].type = "break"
    /\ mode = "Work"
    /\ ~timer_running

(***************************************************************************)
(* C18: a completion spawns one sound thread and one notification thread,  *)
(* the message being "Work session complete! Time for a break." when Work  *)
(* completes and "Break is over! Back to work." when Break completes; no   *)
(* other step spawns any; and a thread that runs, at once or after later   *)
(* operations, and succeeds or fails, changes nothing of the engine state. *)
(***************************************************************************)
ThreadStep ==
    \E i \in DOMAIN dispatched, ok \in BOOLEAN :
        play_notification_sound_thread(i, ok) \/ send_notification_thread(i, ok)

C18_OneDispatchPerCompletion ==
    [][/\ CompletingTick =>
            dispatched' = Append(dispatched,
                [message |-> IF mode = "Work"
                             THEN "Work session complete! Time for a break."
                             ELSE "Break is over! Back to work.",
                 sound |-> "spawned", notify |-> "spawned"])
       /\ ~CompletingTick => Len(dispatched') = Len(dispatched)
       /\ ThreadStep =>
            UNCHANGED <<timer_running, mode, remaining_seconds, work_duration,
                        break_duration, session_start, tags, selected_tag_index, stats_tag_index,
                        db_sessions, db_config, save_attempts, now, adjustments,
                        panicked>>]_vars

\* the second session has completed while the sound of the first failed and
\* its notification has not run yet; the second notification is out
C18_Witness ==
    /\ Len(dispatched) = 2
    /\ dispatched[1].message = "Work session complete! Time for a break."
    /\ dispatched[1].sound = "failed"
    /\ dispatched[1].notify = "spawned"
    /\ dispatched[2].message = "Break is over! Back to work."
    /\ dispatched[2].notify = "shown"
    /\ mode = "Work"

(***************************************************************************)
(* C16: every row of the session log has end_time strictly later than      *)
(* start_time, start_time being the clock reading at the first start of    *)
(* the session and end_time the clock reading at the completing tick.      *)
(***************************************************************************)
C16_EndAfterStart ==
    \A i \in DOMAIN db_sessions : db_sessions[i].end_time > db_sessions[i].start_time

(***************************************************************************)
(* C19: the total of every day of a weekly result is the sum of duration   *)
(* over the rows of that day with type "work" (and with the filter tag,    *)
(* when one is given); rows with type "break" contribute nothing to the    *)
(* weekly, monthly and heatmap results: each is what it would be without   *)
(* them.                                                                   *)
(***************************************************************************)
WorkRows == SelectSeq(db_sessions, LAMBDA r : r.type # "break")

C19_OnlyWorkRowsCount ==
    \A tag \in TagFilters, offset \in UtcOffsets :
        LET today == UtcToday(offset)
            weekly == get_weekly_stats(db_sessions, tag, today)
        IN  /\ \A k \in DOMAIN weekly :
                 weekly[k].total =
                   SumDuration(db_sessions,
                     {i \in DOMAIN db_sessions :
                        /\ DateOf(db_sessions[i].start_time) = weekly[k].day
                        /\ db_sessions[i].type = "work"
                        /\ (tag # None => db_sessions[i].tag = Unwrap(tag))})
            /\ weekly = get_weekly_stats(WorkRows, tag, today)
            /\ get_monthly_stats(db_sessions, tag) = get_monthly_stats(WorkRows, tag)
            /\ get_heatmap_data(db_sessions, today) = get_heatmap_data(WorkRows, today)

\* today holds a work row of 1500 s under "Work", one of 60 s under "Study"
\* and a break row of 300 s: today's total is 1560 s, and 60 s under "Study"
C19_Witness ==
    /\ \E i \in DOMAIN db_sessions :
          /\ db_sessions[i].type = "break"
          /\ DateOf(db_sessions[i].start_time) = LocalToday
    /\ LET all == get_weekly_stats(db_sessions, None, UtcToday(0))
           study == get_weekly_stats(db_sessions, Some("Study"), UtcToday(0))
       IN  /\ Len(all) > 1
           /\ all[Len(all)] = [day |-> LocalToday, total |-> DefaultWork + MinDuration]
           /\ study = <<[day |-> LocalToday, total |-> MinDuration]>>

(***************************************************************************)
(* C20: the weekly result has a bucket for a day only if the day lies      *)
(* within the trailing 7 days, so that it has at most 7 buckets; the       *)
(* buckets are in strictly ascending day order; and every bucket's day     *)
(* holds a matching work session.                                          *)
(***************************************************************************)
C20_WeeklyWindow ==
    \A tag \in TagFilters :
        LET weekly == get_weekly_stats(db_sessions, tag, UtcToday(0))
        IN  /\ Len(weekly) <= 7
            /\ \A k \in DOMAIN weekly :
                 /\ weekly[k].day > LocalToday - 7
                 /\ weekly[k].day <= LocalToday
                 /\ \E i \in DOMAIN db_sessions :
                      /\ DateOf(db_sessions[i].start_time) = weekly[k].day
                      /\ db_sessions[i].type = "work"
                      /\ TagMatches(db_sessions[i], tag)
            /\ \A k \in 1..(Len(weekly) - 1) : weekly[k].day < weekly[k + 1].day

(***************************************************************************)
(* C21: the monthly result is in strictly descending order of year-month,  *)
(* has at most 12 entries, holds exactly the most recent months (up to 12) *)
(* that have a matching work session, whenever they lie, and gives each    *)
(* the sum of duration over the matching work rows of that month.          *)
(***************************************************************************)
MatchingMonths(tag) ==
    {MonthOf(db_sessions[i].start_time) :
       i \in {j \in DOMAIN db_sessions :
                db_sessions[j].type = "work" /\ TagMatches(db_sessions[j], tag)}}

C21_MonthlyTopTwelve ==
    \A tag \in TagFilters :
      \E monthly \in {get_monthly_stats(db_sessions, tag)},
         matching \in {MatchingMonths(tag)} :
        LET listed == {monthly[k].month : k \in DOMAIN monthly}
        IN  /\ Len(monthly) <= 12
            /\ \A k \in 1..(Len(monthly) - 1) : monthly[k].month > monthly[k + 1].month
            /\ listed \subseteq matching
            /\ Len(monthly) = (IF Cardinality(matching) < 12
                               THEN Cardinality(matching) ELSE 12)
            /\ \A m \in matching \ listed : \A l \in listed : m < l
            /\ \A k \in DOMAIN monthly :
                 monthly[k].total =
                   SumDuration(db_sessions,
                     {i \in DOMAIN db_sessions :
                        /\ MonthOf(db_sessions[i].start_time) = monthly[k].month
                        /\ db_sessions[i].type = "work"
                        /\ TagMatches(db_sessions[i], tag)})

\* fifteen months hold work sessions, the newest of them two: the result
\* lists twelve, the newest first with the sum of its two
C21_Witness ==
    /\ Cardinality(MatchingMonths(None)) = 15
    /\ Len(get_monthly_stats(db_sessions, None)) = 12
    /\ get_monthly_stats(db_sessions, None)[1].total = DefaultWork + MinDuration

(***************************************************************************)
(* C22: for every day of the unfiltered weekly result and every month of   *)
(* the unfiltered monthly result, the total is the sum, over the tags that *)
(* occur in the session log, of the totals the query filtered by that tag  *)
(* gives for the same day or month (nothing where it has no such bucket);  *)
(* tags deleted from the tag list count as the others do.                  *)
(***************************************************************************)
LogTags == {db_sessions[i].tag : i \in DOMAIN db_sessions}

DayTotal(result, d) ==
    IF \E k \in DOMAIN result : result[k].day = d
    THEN result[CHOOSE k \in DOMAIN result : result[k].day = d].total
    ELSE 0

MonthTotal(result, m) ==
    IF \E k \in DOMAIN result : result[k].month = m
    THEN result[CHOOSE k \in DOMAIN result : result[k].month = m].total
    ELSE 0

RECURSIVE SumOverTags(_, _)
SumOverTags(S, f) ==
    IF S = {} THEN 0
    ELSE LET t == CHOOSE x \in S : TRUE
         IN  f[t] + SumOverTags(S \ {t}, f)

C22_AllTagsIsSumOfTags ==
    /\ \A offset \in UtcOffsets :
         \E weekly \in {get_weekly_stats(db_sessions, None, UtcToday(offset))} :
           \A k \in DOMAIN weekly :
              weekly[k].total =
                SumOverTags(LogTags,
                  [t \in LogTags |->
                     DayTotal(get_weekly_stats(db_sessions, Some(t), UtcToday(offset)),
                              weekly[k].day)])
    /\ \E monthly \in {get_monthly_stats(db_sessions, None)} :
         \A k \in DOMAIN monthly :
            monthly[k].total =
              SumOverTags(LogTags,
                [t \in LogTags |->
                   MonthTotal(get_monthly_stats(db_sessions, Some(t)), monthly[k].month)])

\* both tags deleted from the tag list, today holding a session under each:
\* today's total is the sum of the two, and so is this month's
C22_Witness ==
    /\ tags = << >>
    /\ LogTags = {"Study", "Work"}
    /\ \E weekly \in {get_weekly_stats(db_sessions, None, UtcToday(0))} :
          /\ Len(weekly) = 3
          /\ weekly[3].total = DefaultWork + MinDuration
    /\ get_monthly_stats(db_sessions, None)[1].total = DefaultWork + 3 * MinDuration

(***************************************************************************)
(* C23: in the heatmap a day with 0 minutes is drawn in tier none, and a   *)
(* day with minutes > 0 in tier low when minutes / max_minutes < 0.25,     *)
(* medium when it is in [0.25, 0.5), high when it is in [0.5, 0.75) and    *)
(* max when it is at least 0.75; the day with the largest positive total   *)
(* of the data is of tier max and a day without work sessions is of tier   *)
(* none.                                                                   *)
(***************************************************************************)
GridCells(weeks) ==
    {Unwrap(weeks[p[1]][p[2]]) :
        p \in {q \in (DOMAIN weeks) \X (1..7) : weeks[q[1]][q[2]] # None}}

C23_HeatmapTiers ==
    \A offset \in UtcOffsets :
      \E data \in {get_heatmap_data(db_sessions, UtcToday(offset))} :
      \E top \in {max_minutes(data)} :
        /\ \A c \in GridCells(HeatmapWeeks(data, LocalToday)) :
             /\ c.minutes = 0 => c.tier = "none"
             /\ (c.minutes > 0 /\ 4 * c.minutes < top) => c.tier = "low"
             /\ (top <= 4 * c.minutes /\ 2 * c.minutes < top) => c.tier = "medium"
             /\ (top <= 2 * c.minutes /\ 4 * c.minutes < 3 * top) => c.tier = "high"
             /\ (c.minutes > 0 /\ 3 * top <= 4 * c.minutes) => c.tier = "max"
             /\ (\A i \in DOMAIN db_sessions :
                    db_sessions[i].type = "work"
                      => DateOf(db_sessions[i].start_time) # c.date) => c.tier = "none"
        /\ \A k \in DOMAIN data :
             (data[k].total \div 60 > 0 /\ \A l \in DOMAIN data : data[l].total <= data[k].total)
               => get_intensity_char(data[k].total \div 60, top) = "max"

\* a grid that shows empty days, a day of 1 minute (low), days of 25
\* minutes (high, the ratio being exactly 0.5) and today with 50 minutes
\* (max)
C23_Witness ==
    \E cells \in {GridCells(render_heatmap_grid(0))} :
        /\ \E c \in cells : c.tier = "none"
        /\ \E c \in cells : c.tier = "low" /\ c.minutes = 1
        /\ \E c \in cells : c.tier = "high" /\ c.minutes = 25
        /\ \E c \in cells : c.tier = "max" /\ c.minutes = 50 /\ c.date = LocalToday

(***************************************************************************)
(* C24: the heatmap grid begins on the Monday on or before the window      *)
(* start, today minus 180 days; every day from the window start through    *)
(* today is in exactly one cell of the grid; and no cell is of a day after *)
(* today.                                                                  *)
(***************************************************************************)
C24_GridCoversWindow ==
    \E weeks \in {render_heatmap_grid(0)} :
        /\ weeks # << >>
        /\ weeks[1][1] # None
        /\ Weekday(Unwrap(weeks[1][1]).date) = 0
        /\ Unwrap(weeks[1][1]).date <= LocalToday - 180
        /\ Unwrap(weeks[1][1]).date > LocalToday - 180 - 7
        /\ \A d \in (LocalToday - 180)..LocalToday :
              Cardinality({<<w, i>> \in (DOMAIN weeks) \X (1..7) :
                             weeks[w][i] # None /\ Unwrap(weeks[w][i]).date = d}) = 1
        /\ \A c \in GridCells(weeks) : c.date <= LocalToday

(***************************************************************************)
(* C25: while the timer runs and only ticks occur, a tick with             *)
(* remaining_seconds = n > 1 leaves n - 1 and completes nothing, and the   *)
(* tick with remaining_seconds = 1 completes, so that completion fires on  *)
(* the n-th tick and on no earlier one; and under weak fairness of the     *)
(* tick a running timer eventually stops with the mode flipped.            *)
(***************************************************************************)
C25_CompletionOnNthTick ==
    /\ [][(timer_running /\ TickStep) =>
            IF remaining_seconds > 1
            THEN /\ remaining_seconds' = remaining_seconds - 1
                 /\ timer_running'
                 /\ mode' = mode
                 /\ dispatched' = dispatched
                 /\ save_attempts' = save_attempts
            ELSE /\ remaining_seconds = 1
                 /\ ~timer_running'
                 /\ mode' = OtherMode(mode)
                 /\ Len(dispatched') = Len(dispatched) + 1]_vars
    /\ \A m \in {"Work", "Break"}, k \in 0..(MaxCompletions - 1) :
          (timer_running /\ mode = m /\ Len(dispatched) = k)
             ~> (~timer_running /\ mode = OtherMode(m) /\ Len(dispatched) = k + 1)

\* a work session and the break after it have both counted down from their
\* full durations to completion
C25_Witness ==
    /\ Len(dispatched) = 2
    /\ save_attempts = 2
    /\ ~timer_running
    /\ mode = "Work"
    /\ work_duration = 2 * MinDuration
    /\ session_start = None

(***************************************************************************)
(* C26: at startup a stored duration that is missing or does not parse as  *)
(* an unsigned integer is replaced by the default, 1500 seconds for work   *)
(* and 300 seconds for break, and the engine starts in mode Work, not      *)
(* running, with remaining_seconds = work_duration and no open session.    *)
(***************************************************************************)
Started ==
    /\ (db_config["work_duration"] = None
          \/ \E m \in Malformed : db_config["work_duration"] = Some(m))
         => work_duration = 1500
    /\ (db_config["break_duration"] = None
          \/ \E m \in Malformed : db_config["break_duration"] = Some(m))
         => break_duration = 300
    /\ mode = "Work"
    /\ ~timer_running
    /\ remaining_seconds = work_duration
    /\ session_start = None

C26_StartupDefaults ==
    /\ Started
    /\ [][restart => Started']_vars

\* started again after a completion had left the engine in mode Break, on a
\* configuration whose work duration does not parse and whose break
\* duration does
C26_Witness ==
    /\ Len(dispatched) = 1
    /\ mode = "Work"
    /\ ~timer_running
    /\ session_start = None
    /\ \E m \in Malformed : db_config["work_duration"] = Some(m)
    /\ work_duration = DefaultWork
    /\ remaining_seconds = DefaultWork
    /\ break_duration = 60

(***************************************************************************)
(* C27: when set_config fails inside adjust_work_duration or               *)
(* adjust_break_duration the stored configuration stays as it was, the     *)
(* duration in memory, and remaining_seconds when idle in the matching     *)
(* mode, still take the clamped value as on success, and the failure       *)
(* raises no error; when set_config succeeds the stored value is the       *)
(* decimal text of the duration in memory and reads back as it.            *)
(***************************************************************************)
C27_SetConfigFailureIgnored ==
    [][\A d \in AnyDeltas, wraps \in BOOLEAN :
         LET work == I64Add(Small(work_duration), d)
             break == I64Add(Small(break_duration), d)
         IN
         /\ adjust_work_duration(d, FALSE, wraps) =>
              /\ db_config' = db_config
              /\ panicked' = (I64Overflows(work) /\ ~wraps)
              /\ ~panicked' =>
                   /\ work_duration' = Clamped(I64Wrap(work), MinDuration, MaxWorkDuration)
                   /\ remaining_seconds' = IF mode = "Work" /\ ~timer_running
                                           THEN work_duration' ELSE remaining_seconds
         /\ adjust_break_duration(d, FALSE, wraps) =>
              /\ db_config' = db_config
              /\ panicked' = (I64Overflows(break) /\ ~wraps)
              /\ ~panicked' =>
                   /\ break_duration' = Clamped(I64Wrap(break), MinDuration, MaxBreakDuration)
                   /\ remaining_seconds' = IF mode = "Break" /\ ~timer_running
                                           THEN break_duration' ELSE remaining_seconds
         /\ (adjust_work_duration(d, TRUE, wraps) /\ ~panicked') =>
              /\ db_config'["work_duration"] = Some(to_string(work_duration'))
              /\ ParseU64(Unwrap(db_config'["work_duration"])) = Some(work_duration')
         /\ (adjust_break_duration(d, TRUE, wraps) /\ ~panicked') =>
              /\ db_config'["break_duration"] = Some(to_string(break_duration'))
              /\ ParseU64(Unwrap(db_config'["break_duration"])) = Some(break_duration')]_vars

\* the stored work duration of 60 raised by a minute while idle, the write
\* having failed: 120 in memory and on the display, 60 on disk
C27_Witness ==
    /\ adjustments = 1
    /\ db_config["work_duration"] = Some(to_string(60))
    /\ work_duration = 120
    /\ remaining_seconds = 120
    /\ ~timer_running
    /\ ~panicked

(***************************************************************************)
(* C28: whenever timer_running is true, session_start is present; so every *)
(* completion finds a start timestamp and attempts exactly one save, the   *)
(* branch of complete_session that skips the save being unreachable.       *)
(***************************************************************************)
C28_RunningHasSessionStart ==
    /\ [](timer_running => session_start # None)
    /\ [][CompletingTick =>
            /\ session_start # None
            /\ save_attempts' = save_attempts + 1]_vars

\* a break session running, its start stamped, after the work session
\* before it completed and saved
C28_Witness ==
    /\ timer_running
    /\ session_start # None
    /\ mode = "Break"
    /\ Len(dispatched) = 1
    /\ save_attempts = 1
    /\ remaining_seconds < break_duration

(***************************************************************************)
(* C29: whenever session_start is empty the timer is not running and       *)
(* remaining_seconds is the full configured duration of the current mode.  *)
(* So a session opens at the full duration; while it is open a step that   *)
(* is no adjustment keeps the mode and the durations and either leaves     *)
(* remaining_seconds alone, or is a tick taking one second off, or ends    *)
(* the session; and the completing tick records the configured duration:   *)
(* a session without adjustment counts down as many ticks as the duration  *)
(* it records.                                                             *)
(***************************************************************************)
C29_IdleHoldsFullDuration ==
    /\ [](session_start = None => (~timer_running /\ remaining_seconds = Duration))
    /\ [][/\ (session_start = None /\ session_start' # None)
               => (timer_running' /\ remaining_seconds' = Duration')
          /\ (session_start # None /\ ~AdjustStep /\ ~CompletingTick) =>
               /\ mode' = mode
               /\ work_duration' = work_duration
               /\ break_duration' = break_duration
               /\ IF timer_running /\ TickStep
                  THEN /\ remaining_seconds > 1
                       /\ remaining_seconds' = remaining_seconds - 1
                  ELSE \/ remaining_seconds' = remaining_seconds
                       \/ /\ session_start' = None
                          /\ remaining_seconds' = Duration
          /\ (CompletingTick /\ AppendsRow) => LastRow.duration = Duration]_vars

\* idle in mode Break after a completed work session, the break duration
\* adjusted since and loaded into the countdown
C29_Witness ==
    /\ session_start = None
    /\ ~timer_running
    /\ mode = "Break"
    /\ adjustments = 1
    /\ break_duration = 2 * MinDuration
    /\ remaining_seconds = break_duration
    /\ Len(db_sessions) = 1
    /\ db_sessions[1].duration = work_duration

(***************************************************************************)
(* C30: within one run the mode after k completions is Work when k is even *)
(* and Break when k is odd, whatever resets, pauses and adjustments come   *)
(* between; so, when every save has succeeded, the rows of the run         *)
(* alternate work, break, work, ... starting with work.                    *)
(***************************************************************************)
C30_ModeAlternates ==
    /\ mode = (IF Len(dispatched) % 2 = 0 THEN "Work" ELSE "Break")
    /\ Len(db_sessions) = Len(dispatched) =>
         \A i \in DOMAIN db_sessions :
            db_sessions[i].type = (IF i % 2 = 1 THEN "work" ELSE "break")

\* two completions, both saved, an adjustment made on the way, and the
\* third session under way
C30_Witness ==
    /\ Len(dispatched) = 2
    /\ Len(db_sessions) = 2
    /\ db_sessions[1].type = "work"
    /\ db_sessions[2].type = "break"
    /\ adjustments = 1
    /\ mode = "Work"
    /\ timer_running

(***************************************************************************)
(* C31: an adjustment of the current mode's duration made while paused in  *)
(* the middle of a session loads the full new value into                   *)
(* remaining_seconds, also when clamping leaves the duration as it was,    *)
(* and leaves session_start and the pause as they were; the completion     *)
(* that follows records the session with the start time stamped at its     *)
(* first start.                                                            *)
(***************************************************************************)
PausedInSession == ~timer_running /\ session_start # None

C31_PausedAdjustReloads ==
    [][/\ (PausedInSession /\ mode = "Work" /\ AdjustWorkStep) =>
            /\ remaining_seconds' = work_duration'
            /\ session_start' = session_start
            /\ ~timer_running'
       /\ (PausedInSession /\ mode = "Break" /\ AdjustBreakStep) =>
            /\ remaining_seconds' = break_duration'
            /\ session_start' = session_start
            /\ ~timer_running'
       /\ (session_start # None /\ session_start' # None) => session_start' = session_start
       /\ (CompletingTick /\ AppendsRow) =>
            LastRow.start_time = FormatTime(Unwrap(session_start))]_vars

\* a work session started at clock reading 0 and completed a minute of
\* wall-clock time later, the one adjustment of the run having lowered a
\* work duration that clamping keeps at its minimum
C31_Witness ==
    /\ Len(db_sessions) = 1
    /\ db_sessions[1].start_time = 0
    /\ db_sessions[1].end_time = FormatTime(ClockStep)
    /\ db_sessions[1].duration = MinDuration
    /\ adjustments = 1
    /\ db_config["work_duration"] = Some(to_string(MinDuration))
    /\ break_duration = MinDuration
    /\ mode = "Break"

(***************************************************************************)
(* C32: after any sequence of next_tag, prev_tag, add_tag and              *)
(* delete_selected_tag, selected_tag_index is a valid index into tags      *)
(* whenever tags is not empty, so that selected_tag() is None only when    *)
(* the tag list is empty.                                                  *)
(***************************************************************************)
C32_SelectedTagIndexValid ==
    /\ tags # << >> => selected_tag_index < Len(tags)
    /\ selected_tag = None => tags = << >>

\* the last of three tags was selected and deleted: the selection moved
\* back onto the new last tag
C32_Witness ==
    /\ tags = <<"Study", "Read">>
    /\ selected_tag_index = 1
    /\ selected_tag = Some("Read")

(***************************************************************************)
(* C33: after any sequence of next_stats_tag, prev_stats_tag, add_tag and  *)
(* delete_selected_tag, stats_tag_index is at most the length of tags, so  *)
(* that get_stats_tag() is None, the all-tags view, only when              *)
(* stats_tag_index is 0.                                                   *)
(***************************************************************************)
C33_StatsTagIndexValid ==
    /\ stats_tag_index <= Len(tags)
    /\ get_stats_tag = None => stats_tag_index = 0

====
